---- MODULE Spec2Model ----
(***************************************************************************)
(* The capture-and-upload state machines of cookingLola's front end.      *)
(*                                                                         *)
(*   AudioRecorder      src/src/app/page.tsx                               *)
(*   CameraCapture      src/src/components/CameraCapture.tsx (capture      *)
(*                      uploads at once)                                   *)
(*   CameraCaptureSend  src/unnamed/part_000, lines 181-417 (the revision  *)
(*                      with an explicit "Send to Lola" button)            *)
(*                                                                         *)
(* The components share no state, so a behaviour follows one of them; the  *)
(* variable component, fixed by Init, says which.  One step is one         *)
(* callback turn of the browser's event loop: a click handler up to its    *)
(* first await (with the render React flushes for a click), the            *)
(* continuation of a handler after an awaited promise settles, a           *)
(* MediaRecorder event handler, React's effect commit, or the unmount.     *)
(***************************************************************************)
EXTENDS Integers, Sequences, FiniteSets, TLC

VARIABLES
    component,     \* which component this behaviour follows
    mounted,       \* the component is mounted
    streams,       \* MediaStream id -> "unopened" | "live" | "stopped"
    pendingMedia,  \* getUserMedia promises not yet settled
    recorder,      \* MediaRecorder of stream id -> its phase
    delivered,     \* MediaRecorder of stream id -> the fragments it has delivered
    audio,         \* AudioRecorder: useState values and refs
    camera,        \* CameraCapture: useState values
    effectStream,  \* the stream captured by the registered effect cleanup
    inflight,      \* upload requests submitted and not yet resolved
    urlsCreated,   \* object URLs made by URL.createObjectURL for replies
    urlOf,         \* reply URL -> the artifact whose upload it answers
    last           \* the callback that ran last and what it told the user

vars == <<component, mounted, streams, pendingMedia, recorder, delivered, audio, camera,
          effectStream, inflight, urlsCreated, urlOf, last>>

----------------------------------------------------------------------------
(* Bounds of the model. *)

\* MediaStreams the browser grants in one behaviour.
MaxStreams == 2

\* getUserMedia requests pending at once.
MaxPending == 2

\* Reply object URLs created in one behaviour.
MaxUrls == 2

----------------------------------------------------------------------------
(* Values. *)

StreamIds == 1..MaxStreams

\* null for a stream, a photo, a recorder ref or a reply URL.
Null == 0

\* audioBlob: null, or a Blob made of the listed fragments.
NullBlob == <<>>
Blob(parts) == <<parts>>

Components == {"AudioRecorder", "CameraCapture", "CameraCaptureSend"}

IsCamera == component \in {"CameraCapture", "CameraCaptureSend"}

\* What getUserMedia rejects with: an Error by name, or a value that is no Error.
MediaErrors == {"NotAllowedError", "PermissionDeniedError", "NotFoundError", "nonError"}

\* How an upload ends: a success status, a non-success status, a rejected fetch.
Outcomes == {"ok", "notOk", "transportFailure"}

\* The stream ids the browser has not handed out yet.
Unopened == {s \in StreamIds : streams[s] = "unopened"}

NewStream == CHOOSE s \in Unopened : \A t \in Unopened : s <= t

LiveStreams == {s \in StreamIds : streams[s] = "live"}

\* track.stop() on every track of stream s (s may be null: nothing to stop).
StopTracks(str, s) == IF s = Null THEN str ELSE [str EXCEPT ![s] = "stopped"]

\* A record of the callback that just ran: notice is what the user sees from
\* it (an alert text or a rendered error), log what goes to the console.
\* arg is what the callback was given (a rejection, an upload's outcome, the
\* stream of the recorder whose event it handles).
Ran(op, arg, notice, log) == [op |-> op, arg |-> arg, notice |-> notice, log |-> log]

\* A state setter: React drops updates of an unmounted component.
SetState(old, new) == IF mounted THEN new ELSE old

----------------------------------------------------------------------------
(* Initial state: a freshly mounted component, nothing requested. *)

Init ==
    /\ component \in Components
    /\ mounted = TRUE
    /\ streams = [s \in StreamIds |-> "unopened"]
    /\ pendingMedia = 0
    /\ recorder = [s \in StreamIds |-> "none"]
    /\ delivered = [s \in StreamIds |-> <<>>]
    /\ audio = [isRecording |-> FALSE, audioBlob |-> NullBlob, replyAudio |-> Null,
                isSending |-> FALSE, mediaRecorderRef |-> Null, audioChunksRef |-> <<>>]
    /\ camera = [stream |-> Null, photo |-> Null, error |-> "", isSending |-> FALSE,
                 lolaReply |-> Null]
    /\ effectStream = Null
    /\ inflight = <<>>
    /\ urlsCreated = 0
    /\ urlOf = <<>>
    /\ last = Ran("mount", "", "", "")

----------------------------------------------------------------------------
(* AudioRecorder, src/src/app/page.tsx *)

IsAudio == component = "AudioRecorder"

\* The record button: onClick={isRecording ? handleStopRecording : handleStartRecording}.
RecordButtonStarts == ~audio.isRecording

\* The send button without disabled={isSending}.
SendButtonNeverDisabled == audio.audioBlob # NullBlob

\* The send button is rendered when audioBlob is set, with disabled={isSending}.
SendButtonEnabled == audio.audioBlob # NullBlob /\ ~audio.isSending

\* handleStartRecording up to its await: ask for the microphone.
handleStartRecording ==
    /\ IsAudio /\ mounted
    /\ RecordButtonStarts
    /\ pendingMedia < MaxPending
    /\ pendingMedia' = pendingMedia + 1
    /\ last' = Ran("handleStartRecording", "", "", "")
    /\ UNCHANGED <<component, delivered, urlOf, mounted, streams, recorder, audio, camera,
                   effectStream, inflight, urlsCreated>>

\* What the rest of handleStartRecording does with the granted stream s:
\* "started" when the recorder is built and started; new MediaRecorder(stream)
\* or mediaRecorder.start() may also throw, which lands in the catch block.
RecorderOutcomes == {"started", "constructorThrows", "startThrows"}

\* The recorder's phase right after lines 25-45 ran with this outcome.
RecorderAfterStart(outcome) ==
    CASE outcome = "started" -> "recording"
      [] outcome = "startThrows" -> "inactive"
      [] OTHER -> "none"

\* handleStartRecording after getUserMedia resolved with a new stream.
StartRecordingGranted(outcome) ==
    /\ IsAudio
    /\ pendingMedia > 0
    /\ Unopened # {}
    /\ LET s == NewStream IN
         /\ streams' = [streams EXCEPT ![s] = "live"]
         /\ recorder' = [recorder EXCEPT ![s] = RecorderAfterStart(outcome)]
         /\ audio' = [audio EXCEPT
                !.isRecording = SetState(@, TRUE),
                !.audioChunksRef = <<>>,
                !.mediaRecorderRef = IF outcome = "constructorThrows" THEN @ ELSE s]
    /\ pendingMedia' = pendingMedia - 1
    /\ last' = Ran("StartRecordingGranted", outcome, "",
                   IF outcome = "started" THEN "" ELSE "Error accessing the microphone:")
    /\ UNCHANGED <<component, delivered, urlOf, mounted, camera, effectStream, inflight, urlsCreated>>

\* A catch block that calls getUserMedia again.
PendingAfterRejectionRetried(n) == n

\* The requests pending once a rejection was handled: the rejected one is
\* gone and the catch block asks for nothing.
PendingAfterRejection(n) == n - 1

\* handleStartRecording's catch after getUserMedia rejected: console.error only.
StartRecordingRejected(err) ==
    /\ IsAudio
    /\ pendingMedia > 0
    /\ pendingMedia' = PendingAfterRejection(pendingMedia)
    /\ last' = Ran("StartRecordingRejected", err, "", "Error accessing the microphone:")
    /\ UNCHANGED <<component, delivered, urlOf, mounted, streams, recorder, audio, camera,
                   effectStream, inflight, urlsCreated>>

\* handleStopRecording's condition: if (mediaRecorderRef.current && isRecording).
StopRecordingGuard == audio.mediaRecorderRef # Null /\ audio.isRecording

\* handleStopRecording.  MediaRecorder.stop() on a recorder that is not
\* recording either returns at once or throws InvalidStateError, depending on
\* the browser; a throw leaves the handler before setIsRecording(false).
handleStopRecordingRun(stopThrows) ==
    /\ LET r == audio.mediaRecorderRef IN
         IF StopRecordingGuard
         THEN IF recorder[r] = "recording"
              THEN /\ ~stopThrows
                   /\ recorder' = [recorder EXCEPT ![r] = "flushing"]
                   /\ audio' = [audio EXCEPT !.isRecording = FALSE]
                   /\ last' = Ran("handleStopRecording", "stopped", "", "")
              ELSE /\ recorder' = recorder
                   /\ audio' = [audio EXCEPT !.isRecording = IF stopThrows THEN @ ELSE FALSE]
                   /\ last' = Ran("handleStopRecording",
                                  IF stopThrows THEN "InvalidStateError" ELSE "inactive", "", "")
         ELSE /\ ~stopThrows
              /\ UNCHANGED <<recorder, audio>>
              /\ last' = Ran("handleStopRecording", "noRecorder", "", "")
    /\ UNCHANGED <<component, delivered, urlOf, mounted, streams, pendingMedia, camera,
                   effectStream, inflight, urlsCreated>>

\* The record button while isRecording is set runs handleStopRecording.
handleStopRecording(stopThrows) ==
    /\ IsAudio /\ mounted
    /\ ~RecordButtonStarts
    /\ handleStopRecordingRun(stopThrows)

\* handleStopRecording called while isRecording is not set (no control of the
\* page does this: the record button then runs handleStartRecording).
handleStopRecordingNotRecording ==
    /\ IsAudio /\ mounted
    /\ ~audio.isRecording
    /\ handleStopRecordingRun(FALSE)

\* mediaRecorder.ondataavailable of the recorder of stream s, fired once
\* after stop(): the fragment is kept when it is not empty.
ondataavailable(s, nonEmpty) ==
    /\ IsAudio
    /\ recorder[s] = "flushing"
    /\ recorder' = [recorder EXCEPT ![s] = "stopping"]
    /\ delivered' = [delivered EXCEPT ![s] = IF nonEmpty THEN Append(@, s) ELSE @]
    /\ audio' = [audio EXCEPT
           !.audioChunksRef = IF nonEmpty THEN Append(@, s) ELSE @]
    /\ last' = Ran("ondataavailable", "", "", "")
    /\ UNCHANGED <<component, urlOf, mounted, streams, pendingMedia, camera,
                   effectStream, inflight, urlsCreated>>

\* onstop without its last statement.
StopRecordedStreamSkipped(str, s) == str

\* The last statement of onstop: stream.getTracks().forEach(track => track.stop()).
StopRecordedStream(str, s) == StopTracks(str, s)

\* mediaRecorder.onstop of the recorder of stream s: build the clip from the
\* shared chunk list, then stop the tracks of the stream it recorded.
onstop(s) ==
    /\ IsAudio
    /\ recorder[s] = "stopping"
    /\ recorder' = [recorder EXCEPT ![s] = "done"]
    /\ audio' = [audio EXCEPT !.audioBlob = SetState(@, Blob(audio.audioChunksRef))]
    /\ streams' = StopRecordedStream(streams, s)
    /\ last' = Ran("onstop", ToString(s), "", "")
    /\ UNCHANGED <<component, delivered, urlOf, mounted, pendingMedia, camera,
                   effectStream, inflight, urlsCreated>>

\* setIsSending(false) after the try statement instead of in finally: the
\* early return of a non-success status skips it.
IsSendingAfterEarlyReturn(outcome) == outcome = "notOk"

\* isSending once a settled upload was handled: the finally block runs
\* setIsSending(false) whatever the outcome.
IsSendingAfterSettle(outcome) == FALSE

\* The status check inverted.
ResponseAcceptedInverted(outcome) == outcome # "ok"

\* The status check left out.
ResponseAcceptedUnchecked(outcome) == outcome \in {"ok", "notOk"}

\* Whether the code past the status check runs (arrayBuffer, createObjectURL,
\* the reply setter): only for a response with response.ok.
ResponseAccepted(outcome) == outcome = "ok"

\* inflight without its i-th request.
Resolved(i) == SubSeq(inflight, 1, i - 1) \o SubSeq(inflight, i + 1, Len(inflight))

\* The reply player: {replyAudio && <audio src={replyAudio} controls autoPlay />}.
ReplyPlayerShown == mounted /\ audio.replyAudio # Null

\* A handler that returned at its guard: nothing but the record of the call
\* (and what it logged) changes.
Returned(op, log) ==
    /\ last' = Ran(op, "returned", "", log)
    /\ UNCHANGED <<component, delivered, urlOf, mounted, streams, pendingMedia, recorder,
                   audio, camera, effectStream, inflight, urlsCreated>>

\* handleSendAudio's guard with the test left out.
SendAudioGuardLeftOut == TRUE

\* handleSendAudio goes on past its first line: if (!audioBlob) return.
SendAudioGuard == audio.audioBlob # NullBlob

\* handleSendAudio up to its await: return without a clip, else submit it.
handleSendAudioRun ==
    IF SendAudioGuard
    THEN /\ inflight' = Append(inflight, audio.audioBlob)
         /\ audio' = [audio EXCEPT !.isSending = TRUE]
         /\ last' = Ran("handleSendAudio", "", "", "")
         /\ UNCHANGED <<component, delivered, urlOf, mounted, streams, pendingMedia, recorder,
                        camera, effectStream, urlsCreated>>
    ELSE Returned("handleSendAudio", "")

\* The send button runs handleSendAudio.
handleSendAudio ==
    /\ IsAudio /\ mounted
    /\ SendButtonEnabled
    /\ handleSendAudioRun

\* handleSendAudio called with no clip recorded (the send button is not
\* rendered then).
handleSendAudioWithoutClip ==
    /\ IsAudio /\ mounted
    /\ audio.audioBlob = NullBlob
    /\ handleSendAudioRun

\* handleSendAudio after the fetch settled, its finally block included.
SendAudioSettled(i, outcome) ==
    /\ IsAudio
    /\ i \in 1..Len(inflight)
    /\ inflight' = Resolved(i)
    /\ IF ResponseAccepted(outcome)
       THEN /\ urlsCreated < MaxUrls
            /\ urlsCreated' = urlsCreated + 1
            /\ urlOf' = Append(urlOf, inflight[i])
            /\ audio' = [audio EXCEPT !.replyAudio = SetState(@, urlsCreated + 1),
                                      !.isSending = SetState(@, IsSendingAfterSettle(outcome))]
            /\ last' = Ran("SendAudioSettled", outcome, "Lola sent a reply!", "")
       ELSE /\ UNCHANGED <<urlsCreated, urlOf>>
            /\ audio' = [audio EXCEPT !.isSending = SetState(@, IsSendingAfterSettle(outcome))]
            /\ last' = IF outcome = "notOk"
                       THEN Ran("SendAudioSettled", outcome, "Error uploading the audio.", "")
                       ELSE Ran("SendAudioSettled", outcome, "", "Error in fetch:")
    /\ UNCHANGED <<component, delivered, mounted, streams, pendingMedia, recorder, camera,
                   effectStream>>

\* The page goes away.  AudioRecorder registers no effect, so nothing is
\* released; promises and recorder events already under way still run.
UnmountAudio ==
    /\ IsAudio /\ mounted
    /\ mounted' = FALSE
    /\ last' = Ran("unmount", "", "", "")
    /\ UNCHANGED <<component, delivered, urlOf, streams, pendingMedia, recorder, audio, camera,
                   effectStream, inflight, urlsCreated>>

NextAudio ==
    \/ handleStartRecording
    \/ \E outcome \in RecorderOutcomes : StartRecordingGranted(outcome)
    \/ \E err \in MediaErrors : StartRecordingRejected(err)
    \/ \E stopThrows \in BOOLEAN : handleStopRecording(stopThrows)
    \/ \E s \in StreamIds, nonEmpty \in BOOLEAN : ondataavailable(s, nonEmpty)
    \/ \E s \in StreamIds : onstop(s)
    \/ handleSendAudio
    \/ \E i \in 1..Len(inflight), outcome \in Outcomes : SendAudioSettled(i, outcome)
    \/ UnmountAudio

----------------------------------------------------------------------------
(* CameraCapture, src/src/components/CameraCapture.tsx, and the revision    *)
(* with a send button, src/unnamed/part_000 lines 181-417.                  *)

\* takePhoto without its upload part.
AutoUploadLeftOut == FALSE

\* The revision whose takePhoto uploads the photo itself.
AutoUpload == component = "CameraCapture"

\* React has committed the last render: the registered effect is the one of
\* the current stream.  Clicks are handled on a committed render.
Committed == effectStream = camera.stream

\* The smart button is rendered when there is no photo; CameraCapture.tsx
\* adds disabled={isSending}.
SmartButtonEnabled == camera.photo = Null /\ (AutoUpload => ~camera.isSending)

\* The send button and sendToLola's guard without the photo check.
SendToLolaWithoutPhoto == ~AutoUpload /\ ~camera.isSending

\* part_000's send button: rendered when photo && !isSending (sendToLola
\* itself returns when there is no photo).
SendToLolaEnabled == ~AutoUpload /\ camera.photo # Null /\ ~camera.isSending

\* The message openCamera's catch block sets for a rejection.
CameraErrorMessage(err) ==
    CASE err \in {"NotAllowedError", "PermissionDeniedError"} ->
             "Camera permission was denied. Please allow camera access in your browser settings."
      [] err = "nonError" -> "An unknown error occurred while accessing the camera."
      [] OTHER -> "Could not access the camera: " \o err

\* The catch block without its setError call.
SendErrorMessageMissing == ""

\* The message the upload's catch block sets (part_000 spells it "errror").
SendErrorMessage ==
    IF AutoUpload THEN "There was an error sending the photo to Lola."
    ELSE "There was an errror sending the photo to Lola."

\* closeCamera's effect on the tracks: stop those of the stream in state.
closeCamera(str, s) == StopTracks(str, s)

\* openCamera up to its await (the smart button with no stream in state).
openCamera ==
    /\ IsCamera /\ mounted /\ Committed
    /\ SmartButtonEnabled
    /\ camera.stream = Null
    /\ pendingMedia < MaxPending
    /\ pendingMedia' = pendingMedia + 1
    /\ camera' = [camera EXCEPT !.photo = Null, !.error = ""]
    /\ last' = Ran("openCamera", "", "", "")
    /\ UNCHANGED <<component, delivered, urlOf, mounted, streams, recorder, audio,
                   effectStream, inflight, urlsCreated>>

\* openCamera after getUserMedia resolved: setStream(newStream).  The render
\* and the effect of the new stream follow in CommitEffect.
OpenCameraGranted ==
    /\ IsCamera
    /\ pendingMedia > 0
    /\ Unopened # {}
    /\ LET s == NewStream IN
         /\ streams' = [streams EXCEPT ![s] = "live"]
         /\ camera' = [camera EXCEPT !.stream = SetState(@, s)]
    /\ pendingMedia' = pendingMedia - 1
    /\ last' = Ran("OpenCameraGranted", "", "", "")
    /\ UNCHANGED <<component, delivered, urlOf, mounted, recorder, audio,
                   effectStream, inflight, urlsCreated>>

\* openCamera's catch block.
OpenCameraRejected(err) ==
    /\ IsCamera
    /\ pendingMedia > 0
    /\ pendingMedia' = PendingAfterRejection(pendingMedia)
    /\ camera' = [camera EXCEPT !.error = SetState(@, CameraErrorMessage(err))]
    /\ last' = Ran("OpenCameraRejected", err,
                   IF mounted THEN CameraErrorMessage(err) ELSE "",
                   "Error accessing camera:")
    /\ UNCHANGED <<component, delivered, urlOf, mounted, streams, recorder, audio,
                   effectStream, inflight, urlsCreated>>

\* useEffect(..., [stream]) after a render in which stream changed: the
\* cleanup of the previous effect stops the tracks of the stream it captured,
\* then the effect of the new stream is registered.
CommitEffect ==
    /\ IsCamera /\ mounted
    /\ ~Committed
    /\ streams' = StopTracks(streams, effectStream)
    /\ effectStream' = camera.stream
    /\ last' = Ran("CommitEffect", "", "", "")
    /\ UNCHANGED <<component, delivered, urlOf, mounted, pendingMedia, recorder, audio, camera,
                   inflight, urlsCreated>>

\* takePhoto goes on past its guard when there is a stream in state (the
\* video and canvas refs it also tests are attached on every render).
TakePhotoGuard == camera.stream # Null

\* takePhoto: return at the guard, else grab the frame,
\* closeCamera, and in CameraCapture.tsx start the upload of the photo.  The
\* click's render commits with it: the cleanup of the closed stream's effect runs.
takePhotoRun ==
    IF TakePhotoGuard
    THEN /\ streams' = StopTracks(closeCamera(streams, camera.stream), effectStream)
         /\ effectStream' = Null
         /\ IF AutoUpload
            THEN /\ camera' = [camera EXCEPT !.photo = camera.stream, !.stream = Null,
                                   !.isSending = TRUE, !.error = "", !.lolaReply = Null]
                 /\ inflight' = Append(inflight, camera.stream)
            ELSE /\ camera' = [camera EXCEPT !.photo = camera.stream, !.stream = Null]
                 /\ inflight' = inflight
         /\ last' = Ran("takePhoto", "", "", "")
         /\ UNCHANGED <<component, delivered, urlOf, mounted, pendingMedia, recorder, audio,
                        urlsCreated>>
    ELSE Returned("takePhoto", "Video ref, canvas ref, or stream not found")

\* The smart button with a stream in state runs takePhoto.
takePhoto ==
    /\ IsCamera /\ mounted /\ Committed
    /\ SmartButtonEnabled
    /\ camera.stream # Null
    /\ takePhotoRun

\* takePhoto called with no stream in state (the smart button then runs
\* openCamera).
takePhotoWithoutStream ==
    /\ IsCamera /\ mounted /\ Committed
    /\ camera.stream = Null
    /\ takePhotoRun

\* retakePhoto: the retake button is rendered whenever there is a photo.
retakePhoto ==
    /\ IsCamera /\ mounted /\ Committed
    /\ camera.photo # Null
    /\ camera' = [camera EXCEPT !.photo = Null, !.error = ""]
    /\ last' = Ran("retakePhoto", "", "", "")
    /\ UNCHANGED <<component, delivered, urlOf, mounted, streams, pendingMedia, recorder, audio,
                   effectStream, inflight, urlsCreated>>

\* sendToLola goes on past its first line: if (!photo) return.
SendToLolaGuard == camera.photo # Null

\* sendToLola past its guard, up to its await: submit the photo.
sendToLolaSubmit ==
    /\ camera' = [camera EXCEPT !.isSending = TRUE, !.error = "", !.lolaReply = Null]
    /\ inflight' = Append(inflight, camera.photo)
    /\ last' = Ran("sendToLola", "", "", "")
    /\ UNCHANGED <<component, delivered, urlOf, mounted, streams, pendingMedia, recorder, audio,
                   effectStream, urlsCreated>>

\* part_000's send button runs sendToLola; it is rendered with a photo, so
\* the call gets past the guard.
sendToLola ==
    /\ IsCamera /\ mounted /\ Committed
    /\ SendToLolaEnabled
    /\ sendToLolaSubmit

\* sendToLola called with no photo in state (no send button is rendered then;
\* CameraCapture.tsx defines the function and renders no button for it).
sendToLolaWithoutPhoto ==
    /\ IsCamera /\ mounted /\ Committed
    /\ camera.photo = Null
    /\ IF SendToLolaGuard THEN sendToLolaSubmit ELSE Returned("sendToLola", "")

\* The rest of takePhoto / sendToLola after the upload settled: a non-success
\* status throws into the same catch block as a rejected fetch.
PhotoSettled(i, outcome) ==
    /\ IsCamera
    /\ i \in 1..Len(inflight)
    /\ inflight' = Resolved(i)
    /\ IF ResponseAccepted(outcome)
       THEN /\ urlsCreated < MaxUrls
            /\ urlsCreated' = urlsCreated + 1
            /\ urlOf' = Append(urlOf, inflight[i])
            /\ camera' = [camera EXCEPT !.lolaReply = SetState(@, urlsCreated + 1),
                                        !.isSending = SetState(@, IsSendingAfterSettle(outcome))]
            /\ last' = Ran("PhotoSettled", outcome, "", "")
       ELSE /\ UNCHANGED <<urlsCreated, urlOf>>
            /\ camera' = [camera EXCEPT !.error = SetState(@, SendErrorMessage),
                                        !.isSending = SetState(@, IsSendingAfterSettle(outcome))]
            /\ last' = Ran("PhotoSettled", outcome,
                           IF mounted THEN SendErrorMessage ELSE "",
                           "Error sending photo to Lola:")
    /\ UNCHANGED <<component, delivered, mounted, streams, pendingMedia, recorder, audio,
                   effectStream>>

\* Unmount: React runs the cleanup of the registered effect.
UnmountCamera ==
    /\ IsCamera /\ mounted /\ Committed
    /\ mounted' = FALSE
    /\ streams' = StopTracks(streams, effectStream)
    /\ last' = Ran("unmount", "", "", "")
    /\ UNCHANGED <<component, delivered, urlOf, pendingMedia, recorder, audio, camera,
                   effectStream, inflight, urlsCreated>>

NextCamera ==
    \/ openCamera
    \/ OpenCameraGranted
    \/ \E err \in MediaErrors : OpenCameraRejected(err)
    \/ CommitEffect
    \/ takePhoto
    \/ retakePhoto
    \/ sendToLola
    \/ \E i \in 1..Len(inflight), outcome \in Outcomes : PhotoSettled(i, outcome)
    \/ UnmountCamera

Next == NextAudio \/ NextCamera

Spec == Init /\ [][Next]_vars

\* The handlers called directly in states where no control runs them.
CalledOutsideEnablingState ==
    \/ takePhotoWithoutStream
    \/ handleSendAudioWithoutClip
    \/ sendToLolaWithoutPhoto
    \/ handleStopRecordingNotRecording

NextCalls == Next \/ CalledOutsideEnablingState

\* The program with its handlers also called outside their enabling states.
SpecCalls == Init /\ [][NextCalls]_vars

----------------------------------------------------------------------------
(* Properties. *)

\* No promise, recorder event or upload is still under way.
Quiescent ==
    /\ pendingMedia = 0
    /\ inflight = <<>>
    /\ \A s \in StreamIds : recorder[s] \notin {"flushing", "stopping"}

\* The callback that ran last settled an upload with this outcome.
SettledWith(outcomes) ==
    last.op \in {"SendAudioSettled", "PhotoSettled"} /\ last.arg \in outcomes

\* C1: in every reachable state at most one stream opened by the component
\* has live tracks.
C1_AtMostOneLiveStream == Cardinality(LiveStreams) <= 1

\* C2: once the component is unmounted and every callback under way has run,
\* every stream it acquired has all tracks stopped.
C2_ReleasedAfterUnmount == (~mounted /\ Quiescent) => LiveStreams = {}

\* C3 as claimed: in the state right after the stop-recording action (audio)
\* or the take-photo action (camera) the captured stream has no live tracks.
C3_ReleasedInSameStep ==
    /\ (last.op = "handleStopRecording" /\ last.arg = "stopped")
           => streams[audio.mediaRecorderRef] # "live"
    /\ last.op = "takePhoto" => streams[camera.photo] # "live"

\* C3 as amended: take-photo stops the captured stream in its own step; the
\* stop-recording action leaves the recorded stream live until the recorder's
\* stop event is handled, and that handler stops it.
C3_ReleasedAtCapture ==
    /\ last.op = "takePhoto" => (camera.stream = Null /\ streams[camera.photo] = "stopped")
    /\ (last.op = "handleStopRecording" /\ last.arg = "stopped")
           => streams[audio.mediaRecorderRef] = "live"
    /\ \A s \in StreamIds :
           /\ recorder[s] \in {"flushing", "stopping"} => streams[s] = "live"
           /\ recorder[s] = "done" => streams[s] = "stopped"

\* C3 witness: a recorder's stop event was handled and released its stream.
C3_Witness ==
    last.op = "onstop" /\ \E s \in StreamIds : recorder[s] = "done" /\ streams[s] = "stopped"

\* C4: after an upload ended in a non-success status or a transport failure
\* the reply state is null.
C4_NoReplyAfterFailure ==
    (mounted /\ SettledWith({"notOk", "transportFailure"}))
        => (audio.replyAudio = Null /\ camera.lolaReply = Null)

\* C5: the step that settles an upload with a non-success status creates no
\* object URL and does not assign the reply state.
C5_NotOkCreatesNoReply ==
    [][(Len(inflight') < Len(inflight) /\ last'.arg = "notOk")
          => /\ urlsCreated' = urlsCreated
             /\ audio'.replyAudio = audio.replyAudio
             /\ camera'.lolaReply = camera.lolaReply]_vars

\* C5 witness: an upload was just settled with a non-success status.
C5_Witness == SettledWith({"notOk"}) /\ inflight = <<>>

\* C6: every acquisition, transport or HTTP error ends in a message the user
\* sees (an alert or a rendered error), in both flows.
C6_ErrorsAreShown ==
    (mounted /\ (\/ last.op \in {"StartRecordingRejected", "OpenCameraRejected"}
                 \/ SettledWith({"notOk", "transportFailure"})))
        => last.notice # ""

\* C7: after microphone permission is denied the audio component is idle, an
\* error message is shown and no recording artifact exists.
C7_DeniedMicrophone ==
    (mounted /\ last.op = "StartRecordingRejected"
             /\ last.arg \in {"NotAllowedError", "PermissionDeniedError"})
        => /\ ~audio.isRecording
           /\ LiveStreams = {}
           /\ last.notice # ""
           /\ audio.audioBlob = NullBlob

\* C8: the component never gets stuck.  With isRecording true the record
\* button only stops, so the claim needs a recorder to stop (or a request
\* still pending that may bring one).
C8_NeverStuck ==
    (mounted /\ audio.isRecording /\ pendingMedia = 0)
        => audio.mediaRecorderRef # Null

\* A control that submits an upload can be clicked.
UploadControlEnabled ==
    /\ mounted
    /\ \/ IsAudio /\ SendButtonEnabled
       \/ AutoUpload /\ SmartButtonEnabled
       \/ IsCamera /\ SendToLolaEnabled

\* C9: while an upload is in flight no control that submits an upload is
\* enabled, so at most one upload is in flight.
C9_OneUploadInFlight ==
    /\ Len(inflight) <= 1
    /\ inflight # <<>> => ~UploadControlEnabled

\* C9 witness: an upload is in flight while the component shows its artifact.
C9_Witness ==
    /\ mounted /\ Len(inflight) = 1
    /\ \/ IsAudio /\ audio.audioBlob # NullBlob /\ audio.isSending
       \/ IsCamera /\ camera.photo # Null /\ camera.isSending

\* C10: while an upload is in flight no acquisition, recording or capture is
\* pending or in progress.
C10_OneCycleAtATime ==
    inflight # <<>>
        => /\ pendingMedia = 0
           /\ LiveStreams = {}
           /\ camera.stream = Null
           /\ ~audio.isRecording

\* Captured: the component holds an artifact, no stream is open and no upload
\* is in flight.
CapturedState ==
    /\ mounted /\ inflight = <<>> /\ LiveStreams = {}
    /\ IsAudio => (audio.audioBlob # NullBlob /\ ~audio.isRecording)
    /\ IsCamera => (camera.photo # Null /\ camera.stream = Null)

\* Idle as the claim spells it: no artifact, no open stream, no upload in flight.
IdleState ==
    /\ audio.audioBlob = NullBlob /\ camera.photo = Null
    /\ camera.stream = Null /\ LiveStreams = {}
    /\ inflight = <<>>

\* C11: the retake action (camera) or the re-record action (the record button,
\* audio) taken from Captured leaves the component Idle and issues no upload.
C11_RetakeReturnsToIdle ==
    [][(CapturedState /\ last'.op \in {"retakePhoto", "handleStartRecording"})
          => IdleState']_vars

\* Reply object URLs not yet released: no handler calls URL.revokeObjectURL,
\* so every URL created stays until the page goes away.
UnreleasedReplyUrls == urlsCreated

\* C12: at any instant at most one unreleased reply object URL exists.
C12_OneUnreleasedReply == UnreleasedReplyUrls <= 1

C14_PhotoRejectedByBackend ==
    (mounted /\ IsCamera /\ last.op = "PhotoSettled" /\ last.arg = "notOk")
        => /\ camera.error # ""
           /\ camera.lolaReply = Null
           /\ ~camera.isSending

\* C14 witness: the upload that takePhoto started came back with a
\* non-success status.
C14_Witness ==
    /\ mounted /\ component = "CameraCapture"
    /\ last.op = "PhotoSettled" /\ last.arg = "notOk"
    /\ camera.error = "There was an error sending the photo to Lola."

\* C15: in the audio flow, once the backend has answered a sent clip with a
\* success status and audio bytes, the component holds the reply made from
\* that answer, shows it in the auto-playing player, and isSending is false.
C15_ReplyAfterSuccess ==
    (mounted /\ last.op = "SendAudioSettled" /\ last.arg = "ok")
        => /\ audio.replyAudio # Null
           /\ audio.replyAudio = urlsCreated
           /\ ReplyPlayerShown
           /\ ~audio.isSending

\* C15 witness: a recorded clip was sent and answered with success.
C15_Witness ==
    /\ mounted /\ IsAudio
    /\ last.op = "SendAudioSettled" /\ last.arg = "ok"
    /\ last.notice = "Lola sent a reply!"
    /\ audio.audioBlob # NullBlob

\* The handlers a click runs.
UserActions ==
    {"handleStartRecording", "handleStopRecording", "handleSendAudio",
     "openCamera", "takePhoto", "retakePhoto", "sendToLola"}

\* The callbacks that run when a getUserMedia or an upload request settles.
SettleCallbacks ==
    {"StartRecordingGranted", "StartRecordingRejected", "OpenCameraGranted",
     "OpenCameraRejected", "SendAudioSettled", "PhotoSettled"}

\* C16: no request is retried automatically.  Every step issues at most one
\* request (getUserMedia or upload), and a step that issues one is a user
\* action; the callbacks of a settled request issue none.
C16_NoAutomaticRetry ==
    [][LET settled == IF last'.op \in SettleCallbacks THEN 1 ELSE 0
           issued == (pendingMedia' + Len(inflight'))
                         - (pendingMedia + Len(inflight)) + settled
       IN  /\ issued \in {0, 1}
           /\ issued = 1 => last'.op \in UserActions]_vars

\* C16 witness: a request has just failed and nothing is pending or in flight.
C16_Witness ==
    /\ \/ last.op \in {"StartRecordingRejected", "OpenCameraRejected"}
       \/ SettledWith({"notOk", "transportFailure"})
    /\ pendingMedia = 0 /\ inflight = <<>>

\* C17: the clip built when a recording stops consists of exactly the
\* fragments its own recorder delivered, in delivery order.
C17_ClipIsOwnFragments ==
    (mounted /\ last.op = "onstop")
        => \E s \in StreamIds :
              /\ ToString(s) = last.arg
              /\ audio.audioBlob = Blob(delivered[s])

\* C18: after a failed camera acquisition stream and photo are null and the
\* error message tells a denial (NotAllowedError, PermissionDeniedError) from
\* another Error (its text in the message) and from a rejection that is no Error.
C18_CameraAcquisitionFailed ==
    (mounted /\ last.op = "OpenCameraRejected")
        => /\ camera.stream = Null
           /\ camera.photo = Null
           /\ camera.error = CameraErrorMessage(last.arg)
           /\ last.arg \in {"NotAllowedError", "PermissionDeniedError"}
                 <=> camera.error = "Camera permission was denied. Please allow camera access in your browser settings."
           /\ last.arg = "nonError"
                 <=> camera.error = "An unknown error occurred while accessing the camera."
           /\ last.arg = "NotFoundError"
                 <=> camera.error = "Could not access the camera: NotFoundError"

\* C19: in CameraCapture.tsx a take-photo action sets the photo, releases the
\* stream and starts exactly one upload, of that photo, in the same step; in
\* the audio flow only the send action issues an upload.
C19_CaptureUploadsItself ==
    [][/\ (component = "CameraCapture" /\ last'.op = "takePhoto")
             => /\ camera'.photo = camera.stream /\ camera'.photo # Null
                /\ camera'.stream = Null
                /\ streams'[camera'.photo] = "stopped"
                /\ inflight = <<>>
                /\ inflight' = <<camera'.photo>>
       /\ (IsAudio /\ inflight' # inflight /\ Len(inflight') >= Len(inflight))
             => last'.op = "handleSendAudio"]_vars

\* C19 witness: a photo was just taken and is being uploaded.
C19_Witness ==
    /\ component = "CameraCapture" /\ last.op = "takePhoto"
    /\ inflight = <<camera.photo>> /\ camera.isSending

\* C20: in the camera flow a stream in state and a photo never coexist.
C20_StreamExcludesPhoto == camera.stream # Null => camera.photo = Null

\* isSending of the component the behaviour follows.
IsSending == IF IsAudio THEN audio.isSending ELSE camera.isSending

\* C21: while the component is mounted, isSending is true exactly when an
\* upload of it is in flight, and it is false right after an upload settled,
\* whatever the outcome.
C21_IsSendingTracksUpload ==
    /\ mounted => (IsSending <=> inflight # <<>>)
    /\ (mounted /\ SettledWith(Outcomes)) => ~IsSending

\* C21 witness: an upload failed in transport and isSending is false again.
C21_Witness ==
    mounted /\ SettledWith({"transportFailure"}) /\ ~IsSending /\ inflight = <<>>

\* C22: a reply exposed by the camera component belongs to the photo held:
\* whenever lolaReply is set, photo is set and the reply answers the upload of
\* that photo; a response arriving after the photo was retaken is not exposed.
C22_ReplyBelongsToPhoto ==
    (IsCamera /\ mounted /\ camera.lolaReply # Null)
        => /\ camera.photo # Null
           /\ urlOf[camera.lolaReply] = camera.photo

\* C23: the camera error message reflects only the most recent attempt: once
\* an acquisition or an upload of CameraCapture.tsx succeeded, no error of an
\* earlier attempt is shown, in particular not over the live stream.
C23_ErrorOfLatestAttempt ==
    (/\ component = "CameraCapture" /\ mounted
     /\ \/ last.op = "OpenCameraGranted"
        \/ last.op = "PhotoSettled" /\ last.arg = "ok")
        => camera.error = ""

\* A step in which a handler ran in a state outside its enabling state:
\* takePhoto with no stream in state, handleSendAudio with no clip, sendToLola
\* with no photo, handleStopRecording while not recording.
RanOutsideEnablingState ==
    /\ last' # last
    /\ \/ last'.op = "takePhoto" /\ camera.stream = Null
       \/ last'.op = "handleSendAudio" /\ audio.audioBlob = NullBlob
       \/ last'.op = "sendToLola" /\ camera.photo = Null
       \/ last'.op = "handleStopRecording" /\ ~audio.isRecording

\* C24: a handler invoked outside its enabling state is a no-op: it changes no
\* state of the component and starts no upload (inflight), no media request
\* (pendingMedia) and nothing on streams, recorders or reply URLs.
C24_OutsideCallsAreNoOps ==
    [][RanOutsideEnablingState
          => UNCHANGED <<component, mounted, streams, pendingMedia, recorder, delivered,
                         audio, camera, effectStream, inflight, urlsCreated, urlOf>>]_vars

\* C24 witness: handleSendAudio was called with no clip recorded and returned
\* with nothing in flight.
C24_Witness ==
    /\ last = Ran("handleSendAudio", "returned", "", "")
    /\ audio.audioBlob = NullBlob /\ inflight = <<>> /\ ~audio.isSending

====
